---- MODULE Spec2Model ----
(***************************************************************************)
(* petit-cli: the chunked transfer of clone-db (copy_table and             *)
(* _process_table_chunks in commands/clone_db.py), the incremental Parquet *)
(* export (fetch_table_incremental and save_incremental_parquet in         *)
(* commands/td2parquet.py), clone_db_command with its validation, its dry  *)
(* run and its thread pool, and trigger_workflow_command with its retry    *)
(* loop (commands/trigger_workflow.py).                                    *)
(*                                                                         *)
(* A job is identified by the number of its table.  The rows of a query    *)
(* result are numbered 1..nrows[j] in the order the result iterator yields *)
(* them, so a written chunk is a sequence of row numbers.                  *)
(***************************************************************************)
EXTENDS Integers, Sequences, FiniteSets, TLC

\* Bounds of the model.
MaxRows == 4
MaxChunk == 3
NumTables == 2
MaxParallelism == 2

\* the defaults of --table-parallelism and --download-parallelism
DefaultTableParallelism == 2
DefaultDownloadParallelism == 4

\* class TableExistsAction
TableExistsAction == {"error", "skip", "overwrite"}

\* The exception classes copy_table tells apart (its except clauses), the
\* last one standing for every other Exception.
ErrorKinds == {"AuthError", "ForbiddenError", "NotFoundError", "Exception"}

VARIABLES
    command,              \* the entry point that runs: "copy_table", "save_incremental_parquet",
                          \* "td2parquet", "clone_db", "trigger_workflow"
    tables,               \* the jobs of the run (source_client.list_tables())
    table_exists_action,  \* the policy of the run
    chunk_size,           \* --chunk-size
    table_parallelism,    \* --table-parallelism
    download_parallelism, \* --download-parallelism
    dest_exists,          \* dest_exists[j]: what dest_client.exists(dest_db, tbl_name) answers
    nrows,                \* nrows[j]: the number of rows of the query result
    faults,               \* the exceptions the remote calls of this run may raise
    pc,                   \* pc[j]: the statement job j is at
    pos,                  \* pos[j]: rows the iterator has yielded so far
    chunk_data,           \* chunk_data[j]: the buffer
    total_rows,           \* total_rows[j]
    chunk_count,          \* chunk_count[j]
    queries,              \* queries[j]: td_client.query calls made
    writes,               \* writes[j]: the write calls issued, in order: [mode, rows, ok]
    raised,               \* raised[j]: the exception that left the function, or "none"
    thrown,               \* thrown[j]: the exception last raised inside the function, or "none"
    writer,               \* save_incremental_parquet: "None" or "open"
    opens,                \* pq.ParquetWriter(...) calls that succeeded
    closes,               \* writer.close() calls
    table_schema,         \* save_incremental_parquet: 0 for None, else the first row of the
                          \* chunk whose table.schema it holds
    queue,                \* the executor's work queue
    num_threads,          \* worker threads the executor has started
    mainPc,               \* clone_db_command: the statement the main thread is at
    submitted,            \* tables already handed to executor.submit
    exit_code,            \* the command's exit status, -1 while it runs
    skip_existing,        \* clone-db --skip-existing
    overwrite,            \* clone-db --overwrite
    dry_run,              \* clone-db --dry-run
    source_api_key,       \* os.environ[source_key]: "missing", "" or a key
    dest_api_key,         \* os.environ[dest_key]
    source_db_exists,     \* what source_client.exists(database) answers
    tcount,               \* tcount[j]: table.count, <<>> for None and <<n>> for n
    db_created,           \* dest_client.create_database_if_not_exists calls
    listed,               \* source_client.list_tables calls
    bulk_writers,         \* pytd.writer.BulkImportWriter() objects constructed
    job_writer,           \* job_writer[j]: the writer object handed to job j, 0 for none yet
    analysed,             \* analysed[j]: the outcome perform_dry_run_analysis printed for table j, "none" before
    analysis,             \* perform_dry_run_analysis: its counters
    has_key,              \* trigger-workflow: TD_API_KEY is set
    check_attempt,        \* trigger-workflow: --check-attempt is given
    has_workflow_id,      \* trigger-workflow: the workflow_id argument is given
    wait,                 \* trigger-workflow: --wait
    tpc,                  \* trigger-workflow: the statement the command is at
    now,                  \* time.time(), in ticks
    retry_start_time,     \* trigger-workflow: retry_start_time
    calls,                \* client.start_attempt calls made
    sleeps,               \* the delays passed to time.sleep, in order
    error,                \* the exception being handled, <<>> for none
    attempt,              \* the attempt object: <<>> for None, <<[done, success]>>
    interrupted           \* wait_for_attempt caught KeyboardInterrupt

jobVars == <<pc, pos, chunk_data, total_rows, chunk_count, queries, writes, raised, thrown>>
inputVars == <<command, tables, table_exists_action, chunk_size, table_parallelism,
               download_parallelism, dest_exists, nrows, faults>>
exportVars == <<writer, opens, closes, table_schema>>
poolVars == <<queue, num_threads, mainPc, submitted, exit_code>>
cmdInputs == <<skip_existing, overwrite, dry_run, source_api_key, dest_api_key,
               source_db_exists, tcount>>
cmdState == <<db_created, listed, bulk_writers, job_writer, analysed, analysis>>
cmdVars == <<cmdInputs, cmdState>>
trigInputs == <<has_key, check_attempt, has_workflow_id, wait>>
trigState == <<tpc, now, retry_start_time, calls, sleeps, error, attempt, interrupted>>
trigVars == <<trigInputs, trigState>>
vars == <<jobVars, inputVars, exportVars, poolVars, cmdVars, trigVars>>

RowsOf(n) == [i \in 1..n |-> i]

\* the chunks of the write calls that returned, concatenated
RECURSIVE Concat(_)
Concat(ws) ==
    IF ws = <<>> THEN <<>>
    ELSE (IF Head(ws).ok THEN Head(ws).rows ELSE <<>>) \o Concat(Tail(ws))

Written(j) == Concat(writes[j])

----------------------------------------------------------------------------
(* copy_table *)

\* the jobs a run may have
Jobs == 1..NumTables

\* job j is at the statement named label
At(j, label) == j \in tables /\ pc[j] = label

\* a job ends by returning or by raising
Terminal == {"returned", "raised"}

\* copy_table_except with every clause wrapping what it caught in a new Exception
copy_table_except_wrapped(e) == "Exception"

\* clone_db.py:359-378: the exception that leaves copy_table when e is raised
\* inside its try block; every clause logs and re-raises what it caught.
copy_table_except(e) ==
    IF e = "AuthError" THEN "AuthError"
    ELSE IF e = "ForbiddenError" THEN "ForbiddenError"
    ELSE IF e = "NotFoundError" THEN "NotFoundError"
    ELSE e

\* job j leaves copy_table with the exception e raised inside the try block
RaiseInTry(j, e) ==
    /\ pc' = [pc EXCEPT ![j] = "raised"]
    /\ thrown' = [thrown EXCEPT ![j] = e]
    /\ raised' = [raised EXCEPT ![j] = copy_table_except(e)]

\* SkipsExisting with the ERROR branch missing
SkipsOnlyOnSkip(exists, action) ==
    exists /\ action = "skip"

\* SkipsExisting with no exemption for OVERWRITE
SkipsWhenExists(exists, action) == exists

\* clone_db.py:312-327: the existence check and the policy decision: the
\* table is left alone when it exists and the policy is SKIP or ERROR
SkipsExisting(exists, action) ==
    exists /\ action \in {"skip", "error"}

ExistsCheck(j) ==
    /\ At(j, "exists")
    /\ pc' = [pc EXCEPT ![j] =
                IF SkipsExisting(dest_exists[j], table_exists_action)
                THEN "returned" ELSE "query"]
    /\ UNCHANGED <<pos, chunk_data, total_rows, chunk_count, queries, writes, raised, thrown>>
    /\ UNCHANGED <<inputVars, trigVars, exportVars, poolVars>>
    /\ UNCHANGED cmdVars

\* clone_db.py:312: dest_client.exists raises, outside the try block
ExistsFails(j) ==
    /\ At(j, "exists")
    /\ \E e \in faults :
          /\ pc' = [pc EXCEPT ![j] = "raised"]
          /\ thrown' = [thrown EXCEPT ![j] = e]
          /\ raised' = [raised EXCEPT ![j] = e]
    /\ UNCHANGED <<pos, chunk_data, total_rows, chunk_count, queries, writes>>
    /\ UNCHANGED <<inputVars, trigVars, exportVars, poolVars>>
    /\ UNCHANGED cmdVars

\* clone_db.py:330-331: td_client.query(...), which may raise
Query(j) ==
    /\ At(j, "query")
    /\ queries' = [queries EXCEPT ![j] = @ + 1]
    /\ \E r \in {"ok"} \cup faults :
          IF r = "ok"
          THEN pc' = [pc EXCEPT ![j] = "wait"] /\ UNCHANGED <<raised, thrown>>
          ELSE RaiseInTry(j, r)
    /\ UNCHANGED <<pos, chunk_data, total_rows, chunk_count, writes>>
    /\ UNCHANGED <<inputVars, trigVars, exportVars, poolVars>>
    /\ UNCHANGED cmdVars

\* clone_db.py:332-339: job.wait(), which may raise, and job.success(); an
\* unsuccessful job raises the Exception that line 337 constructs, written
\* "QueryFailed" to tell it from the exceptions of the remote calls
WaitJob(j) ==
    /\ At(j, "wait")
    /\ \E r \in {"success", "failed"} \cup faults :
          IF r = "success"
          THEN pc' = [pc EXCEPT ![j] = "open"] /\ UNCHANGED <<raised, thrown>>
          ELSE IF r = "failed"
          THEN RaiseInTry(j, "QueryFailed")
          ELSE RaiseInTry(j, r)
    /\ UNCHANGED <<pos, chunk_data, total_rows, chunk_count, queries, writes>>
    /\ UNCHANGED <<inputVars, trigVars, exportVars, poolVars>>
    /\ UNCHANGED cmdVars

----------------------------------------------------------------------------
(* _process_table_chunks *)

\* if_exists_param of a copy that overwrites whatever the policy
if_exists_overwrite(action) == "overwrite"

\* clone_db.py:402
if_exists_param(action) ==
    IF action = "overwrite" THEN "overwrite" ELSE "error"

\* WriteMode with the policy's mode on every write
WriteModeNoAppend(action, count) == if_exists_param(action)

\* clone_db.py:418 and 439: the mode of a write
WriteMode(action, count) ==
    IF count = 0 THEN if_exists_param(action) ELSE "append"

\* ChunkFull with > for >=
ChunkOverFull(data, size) == Len(data) > size

\* clone_db.py:412 (td2parquet.py:71): the buffer is written once it holds
\* chunk_size rows
ChunkFull(data, size) == Len(data) >= size

\* CountRows counting one per write
CountChunks(total, data) == total + 1

\* clone_db.py:421 and 442 (td2parquet.py:86 and 102): total_rows += len(chunk_data)
CountRows(total, data) == total + Len(data)

\* ResetChunk with the buffer kept
KeepChunk(data) == data

\* clone_db.py:430 (td2parquet.py:89): chunk_data = []
ResetChunk(data) == <<>>

\* clone_db.py:394-407: schema, result_format (may raise), the counters
OpenResult(j) ==
    /\ At(j, "open")
    /\ \E r \in {"ok"} \cup faults :
          IF r = "ok"
          THEN /\ pc' = [pc EXCEPT ![j] = "loop"]
               /\ chunk_data' = [chunk_data EXCEPT ![j] = <<>>]
               /\ total_rows' = [total_rows EXCEPT ![j] = 0]
               /\ chunk_count' = [chunk_count EXCEPT ![j] = 0]
               /\ UNCHANGED <<raised, thrown>>
          ELSE /\ RaiseInTry(j, r)
               /\ UNCHANGED <<chunk_data, total_rows, chunk_count>>
    /\ UNCHANGED <<pos, queries, writes>>
    /\ UNCHANGED <<inputVars, trigVars, exportVars, poolVars>>
    /\ UNCHANGED cmdVars

\* clone_db.py:409-412: the iterator yields the next row, which is buffered
ReadRow(j) ==
    /\ At(j, "loop")
    /\ pos[j] < nrows[j]
    /\ pos' = [pos EXCEPT ![j] = @ + 1]
    /\ chunk_data' = [chunk_data EXCEPT ![j] = Append(@, pos[j] + 1)]
    /\ pc' = [pc EXCEPT ![j] =
                IF ChunkFull(chunk_data'[j], chunk_size) THEN "write" ELSE "loop"]
    /\ UNCHANGED <<total_rows, chunk_count, queries, writes, raised, thrown>>
    /\ UNCHANGED <<inputVars, trigVars, exportVars, poolVars>>
    /\ UNCHANGED cmdVars

\* clone_db.py:409: the iterator raises instead of yielding a row
ReadFails(j) ==
    /\ At(j, "loop")
    /\ \E e \in faults : RaiseInTry(j, e)
    /\ UNCHANGED <<pos, chunk_data, total_rows, chunk_count, queries, writes>>
    /\ UNCHANGED <<inputVars, trigVars, exportVars, poolVars>>
    /\ UNCHANGED cmdVars

\* clone_db.py:409: the iterator is exhausted
EndOfRows(j) ==
    /\ At(j, "loop")
    /\ pos[j] = nrows[j]
    /\ pc' = [pc EXCEPT ![j] = "rest"]
    /\ UNCHANGED <<pos, chunk_data, total_rows, chunk_count, queries, writes, raised, thrown>>
    /\ UNCHANGED <<inputVars, trigVars, exportVars, poolVars>>
    /\ UNCHANGED cmdVars

\* clone_db.py:413-430: a full chunk is written, counted and dropped
WriteChunk(j) ==
    /\ At(j, "write")
    /\ \E r \in {"ok"} \cup faults :
          /\ writes' = [writes EXCEPT ![j] = Append(@,
                 [mode |-> WriteMode(table_exists_action, chunk_count[j]),
                  rows |-> chunk_data[j], ok |-> (r = "ok")])]
          /\ IF r = "ok"
             THEN /\ total_rows' = [total_rows EXCEPT ![j] = CountRows(@, chunk_data[j])]
                  /\ chunk_count' = [chunk_count EXCEPT ![j] = @ + 1]
                  /\ chunk_data' = [chunk_data EXCEPT ![j] = ResetChunk(@)]
                  /\ pc' = [pc EXCEPT ![j] = "loop"]
                  /\ UNCHANGED <<raised, thrown>>
             ELSE /\ RaiseInTry(j, r)
                  /\ UNCHANGED <<total_rows, chunk_count, chunk_data>>
    /\ UNCHANGED <<pos, queries>>
    /\ UNCHANGED <<inputVars, trigVars, exportVars, poolVars>>
    /\ UNCHANGED cmdVars

\* clone_db.py:433-444 and 354-357: the remaining rows are written and
\* copy_table returns
WriteRest(j) ==
    /\ At(j, "rest")
    /\ IF chunk_data[j] # <<>>
       THEN \E r \in {"ok"} \cup faults :
          /\ writes' = [writes EXCEPT ![j] = Append(@,
                 [mode |-> WriteMode(table_exists_action, chunk_count[j]),
                  rows |-> chunk_data[j], ok |-> (r = "ok")])]
          /\ IF r = "ok"
             THEN /\ total_rows' = [total_rows EXCEPT ![j] = CountRows(@, chunk_data[j])]
                  /\ pc' = [pc EXCEPT ![j] = "returned"]
                  /\ UNCHANGED <<raised, thrown>>
             ELSE /\ RaiseInTry(j, r)
                  /\ UNCHANGED total_rows
       ELSE /\ pc' = [pc EXCEPT ![j] = "returned"]
            /\ UNCHANGED <<writes, total_rows, raised, thrown>>
    /\ UNCHANGED <<pos, chunk_data, chunk_count, queries>>
    /\ UNCHANGED <<inputVars, trigVars, exportVars, poolVars>>
    /\ UNCHANGED cmdVars

CopyStep(j) ==
    \/ ExistsCheck(j)
    \/ ExistsFails(j)
    \/ Query(j)
    \/ WaitJob(j)
    \/ OpenResult(j)
    \/ ReadRow(j)
    \/ ReadFails(j)
    \/ EndOfRows(j)
    \/ WriteChunk(j)
    \/ WriteRest(j)

----------------------------------------------------------------------------
(* save_incremental_parquet *)

\* the steps of one chunk's write that may raise (td2parquet.py:73-85 and
\* 93-101), "none" when all of them return
WriteStages == {"none", "from_pandas", "ParquetWriter", "write_table"}

\* NeedsWriter of an export that opens a writer for every chunk
NeedsWriterAlways(w) == TRUE

\* td2parquet.py:79 and 96: the writer is opened when there is none yet
NeedsWriter(w) == w = "None"

\* ClosesWriter of a finally block that closes without looking
AlwaysCloses(w) == TRUE

\* ClosesWriter with the close left out
NeverCloses(w) == FALSE

\* td2parquet.py:105: the finally block closes the writer it holds
ClosesWriter(w) == w # "None"

\* td2parquet.py:76, 94: table.schema of the chunk's table; a chunk is told
\* apart by its first row
SchemaOf(data) == data[1]

\* td2parquet.py:73-86 and 93-102: one chunk goes to the file; fail names the
\* call that raises
WriteTable(j, fail) ==
    /\ fail = "ParquetWriter" => NeedsWriter(writer)
    /\ IF NeedsWriter(writer) /\ fail \in {"none", "write_table"}
       THEN writer' = "open" /\ opens' = opens + 1
       ELSE UNCHANGED <<writer, opens>>
    /\ IF NeedsWriter(writer) /\ fail # "from_pandas"
       THEN table_schema' = SchemaOf(chunk_data[j])
       ELSE UNCHANGED table_schema
    /\ IF fail \in {"none", "write_table"}
       THEN writes' = [writes EXCEPT ![j] = Append(@,
                [mode |-> "write_table", rows |-> chunk_data[j], ok |-> (fail = "none")])]
       ELSE UNCHANGED writes
    /\ IF fail = "none"
       THEN total_rows' = [total_rows EXCEPT ![j] = CountRows(@, chunk_data[j])]
            /\ UNCHANGED thrown
       ELSE thrown' = [thrown EXCEPT ![j] = "Exception"]
            /\ UNCHANGED total_rows

\* td2parquet.py:55-63: schema and result_format, before the try block
ExportOpen(j) ==
    /\ At(j, "e_open")
    /\ \E ok \in BOOLEAN :
          IF ok
          THEN pc' = [pc EXCEPT ![j] = "e_loop"] /\ UNCHANGED <<raised, thrown>>
          ELSE /\ pc' = [pc EXCEPT ![j] = "raised"]
               /\ thrown' = [thrown EXCEPT ![j] = "Exception"]
               /\ raised' = [raised EXCEPT ![j] = "Exception"]
    /\ UNCHANGED <<pos, chunk_data, total_rows, chunk_count, queries, writes>>
    /\ UNCHANGED <<inputVars, trigVars, exportVars, poolVars>>
    /\ UNCHANGED cmdVars

\* td2parquet.py:68-71: the iterator yields the next row, which is buffered
ExportReadRow(j) ==
    /\ At(j, "e_loop")
    /\ pos[j] < nrows[j]
    /\ pos' = [pos EXCEPT ![j] = @ + 1]
    /\ chunk_data' = [chunk_data EXCEPT ![j] = Append(@, pos[j] + 1)]
    /\ pc' = [pc EXCEPT ![j] =
                IF ChunkFull(chunk_data'[j], chunk_size) THEN "e_write" ELSE "e_loop"]
    /\ UNCHANGED <<total_rows, chunk_count, queries, writes, raised, thrown>>
    /\ UNCHANGED <<inputVars, trigVars, exportVars, poolVars>>
    /\ UNCHANGED cmdVars

\* td2parquet.py:68: the iterator raises; control goes to the finally block
ExportReadFails(j) ==
    /\ At(j, "e_loop")
    /\ pc' = [pc EXCEPT ![j] = "e_finally"]
    /\ thrown' = [thrown EXCEPT ![j] = "Exception"]
    /\ UNCHANGED <<pos, chunk_data, total_rows, chunk_count, queries, writes, raised>>
    /\ UNCHANGED <<inputVars, trigVars, exportVars, poolVars>>
    /\ UNCHANGED cmdVars

\* td2parquet.py:68: the iterator is exhausted
ExportEndOfRows(j) ==
    /\ At(j, "e_loop")
    /\ pos[j] = nrows[j]
    /\ pc' = [pc EXCEPT ![j] = "e_rest"]
    /\ UNCHANGED <<pos, chunk_data, total_rows, chunk_count, queries, writes, raised, thrown>>
    /\ UNCHANGED <<inputVars, trigVars, exportVars, poolVars>>
    /\ UNCHANGED cmdVars

\* td2parquet.py:71-89: a full chunk is written and dropped
ExportWriteChunk(j) ==
    /\ At(j, "e_write")
    /\ \E fail \in WriteStages :
          /\ WriteTable(j, fail)
          /\ IF fail = "none"
             THEN /\ chunk_data' = [chunk_data EXCEPT ![j] = ResetChunk(@)]
                  /\ pc' = [pc EXCEPT ![j] = "e_loop"]
             ELSE /\ UNCHANGED chunk_data
                  /\ pc' = [pc EXCEPT ![j] = "e_finally"]
    /\ UNCHANGED <<pos, chunk_count, queries, closes, raised>>
    /\ UNCHANGED <<inputVars, trigVars>>
    /\ UNCHANGED cmdVars
    /\ UNCHANGED poolVars

\* td2parquet.py:92-102: the remaining rows are written
ExportWriteRest(j) ==
    /\ At(j, "e_rest")
    /\ IF chunk_data[j] # <<>>
       THEN \E fail \in WriteStages : WriteTable(j, fail)
       ELSE UNCHANGED <<writer, opens, table_schema, writes, total_rows, thrown>>
    /\ pc' = [pc EXCEPT ![j] = "e_finally"]
    /\ UNCHANGED <<pos, chunk_data, chunk_count, queries, closes, raised>>
    /\ UNCHANGED <<inputVars, trigVars>>
    /\ UNCHANGED cmdVars
    /\ UNCHANGED poolVars

\* td2parquet.py:104-107: the finally block; close may raise, and the
\* function ends by returning or with the exception that is pending
ExportFinally(j) ==
    /\ At(j, "e_finally")
    /\ IF ClosesWriter(writer)
       THEN /\ closes' = closes + 1
            /\ writer' = "closed"
            /\ \E ok \in BOOLEAN :
                  thrown' = [thrown EXCEPT ![j] = IF ok THEN @ ELSE "Exception"]
       ELSE UNCHANGED <<closes, writer, thrown>>
    /\ raised' = [raised EXCEPT ![j] = thrown'[j]]
    /\ pc' = [pc EXCEPT ![j] = IF raised'[j] = "none" THEN "returned" ELSE "raised"]
    /\ UNCHANGED <<pos, chunk_data, total_rows, chunk_count, queries, writes, opens, table_schema>>
    /\ UNCHANGED <<inputVars, trigVars>>
    /\ UNCHANGED cmdVars
    /\ UNCHANGED poolVars

ExportStep(j) ==
    \/ ExportOpen(j)
    \/ ExportReadRow(j)
    \/ ExportReadFails(j)
    \/ ExportEndOfRows(j)
    \/ ExportWriteChunk(j)
    \/ ExportWriteRest(j)
    \/ ExportFinally(j)

----------------------------------------------------------------------------
(* fetch_table_incremental and td2parquet_command, td2parquet.py:141-221 *)

\* td2parquet.py:162, 173-175: client.query returns a job, or raises and the
\* except clause returns False
FetchQuery(j) ==
    /\ At(j, "f_query")
    /\ \E r \in {"job"} \cup faults :
          IF r = "job"
          THEN /\ queries' = [queries EXCEPT ![j] = @ + 1]
               /\ pc' = [pc EXCEPT ![j] = "f_wait"]
          ELSE /\ pc' = [pc EXCEPT ![j] = "f_error"]
               /\ UNCHANGED queries
    /\ UNCHANGED <<pos, chunk_data, total_rows, chunk_count, writes, raised, thrown>>
    /\ UNCHANGED <<inputVars, trigVars, exportVars, poolVars>>
    /\ UNCHANGED cmdVars

\* td2parquet.py:163-171: job.wait(), which may raise, and job.success():
\* save_incremental_parquet is called, or False is returned
FetchWait(j) ==
    /\ At(j, "f_wait")
    /\ \E r \in {"success", "failed"} \cup faults :
          pc' = [pc EXCEPT ![j] =
                    IF r = "success" THEN "e_open"
                    ELSE IF r = "failed" THEN "f_job_failed"
                    ELSE "f_error"]
    /\ UNCHANGED <<pos, chunk_data, total_rows, chunk_count, queries, writes, raised, thrown>>
    /\ UNCHANGED <<inputVars, trigVars, exportVars, poolVars>>
    /\ UNCHANGED cmdVars

\* the statements at which fetch_table_incremental is over
FetchOver == {"returned", "raised", "f_job_failed", "f_error"}

\* td2parquet.py:168-175: True after save_incremental_parquet returned; False
\* for an unsuccessful job and for every exception, that of
\* save_incremental_parquet included
FetchResult(at) == at = "returned"

\* ExitStatus of a command that ignores the result
ExitStatusIgnored(success) == 0

\* td2parquet.py:205-211: raise typer.Exit(1) unless success
ExitStatus(success) == IF success THEN 0 ELSE 1

\* td2parquet.py:204-211: td2parquet_command after fetch_table_incremental
Td2ParquetExit(j) ==
    /\ command = "td2parquet"
    /\ j \in tables
    /\ exit_code = -1
    /\ pc[j] \in FetchOver
    /\ exit_code' = ExitStatus(FetchResult(pc[j]))
    /\ UNCHANGED <<queue, num_threads, mainPc, submitted>>
    /\ UNCHANGED <<jobVars, inputVars, exportVars, cmdVars, trigVars>>

FetchStep(j) ==
    \/ FetchQuery(j)
    \/ FetchWait(j)
    \/ Td2ParquetExit(j)

----------------------------------------------------------------------------
(* one call of copy_table or of save_incremental_parquet *)

\* the counters of perform_dry_run_analysis, clone_db.py:219-223
NoAnalysis ==
    [create_count |-> 0, skip_count |-> 0, overwrite_count |-> 0, error_count |-> 0,
     total_rows |-> 0]

\* clone_db_command's options and environment when only the job functions run
CmdInputsUnused ==
    /\ skip_existing = FALSE
    /\ overwrite = FALSE
    /\ dry_run = FALSE
    /\ source_api_key = "k1"
    /\ dest_api_key = "k2"
    /\ source_db_exists = TRUE
    /\ tcount = [j \in tables |-> <<>>]

\* trigger_workflow_command is not invoked
TrigIdle ==
    /\ has_key = FALSE
    /\ check_attempt = FALSE
    /\ has_workflow_id = FALSE
    /\ wait = FALSE
    /\ tpc = "none"
    /\ now = 0
    /\ retry_start_time = 0
    /\ calls = 0
    /\ sleeps = <<>>
    /\ error = <<>>
    /\ attempt = <<>>
    /\ interrupted = FALSE

JobInit(first) ==
    /\ pc = [j \in tables |-> first]
    /\ pos = [j \in tables |-> 0]
    /\ chunk_data = [j \in tables |-> <<>>]
    /\ total_rows = [j \in tables |-> 0]
    /\ chunk_count = [j \in tables |-> 0]
    /\ queries = [j \in tables |-> 0]
    /\ writes = [j \in tables |-> <<>>]
    /\ raised = [j \in tables |-> "none"]
    /\ thrown = [j \in tables |-> "none"]

Init ==
    /\ command \in {"copy_table", "save_incremental_parquet", "td2parquet"}
    /\ tables = {1}
    /\ table_exists_action \in TableExistsAction
    /\ chunk_size \in 1..MaxChunk
    /\ table_parallelism = DefaultTableParallelism
    /\ download_parallelism = DefaultDownloadParallelism
    /\ dest_exists \in [tables -> BOOLEAN]
    /\ nrows \in [tables -> 0..MaxRows]
    /\ faults = ErrorKinds
    /\ JobInit(IF command = "copy_table" THEN "exists"
               ELSE IF command = "td2parquet" THEN "f_query"
               ELSE "e_open")
    /\ writer = "None"
    /\ opens = 0
    /\ closes = 0
    /\ table_schema = 0
    /\ queue = <<>>
    /\ num_threads = 0
    /\ mainPc = "none"
    /\ submitted = {}
    /\ exit_code = -1
    /\ CmdInputsUnused
    /\ db_created = 0
    /\ listed = 0
    /\ bulk_writers = 1
    /\ job_writer = [j \in tables |-> 1]
    /\ analysed = [j \in tables |-> "none"]
    /\ analysis = NoAnalysis
    /\ TrigIdle

Next == \E j \in Jobs : CopyStep(j) \/ ExportStep(j) \/ FetchStep(j)

Spec == Init /\ [][Next]_vars

----------------------------------------------------------------------------
(* clone_db_command: the thread pool, clone_db.py:158-177 *)

\* the jobs a worker thread is executing
Running == {j \in tables : pc[j] \notin {"unsubmitted", "queued"} \cup Terminal}

\* max_workers taken from the other parallelism option
max_workers_download == download_parallelism

\* clone_db.py:158: ThreadPoolExecutor(max_workers=table_parallelism)
max_workers == table_parallelism

\* ShutdownReturns of an executor shut down with wait=False
ShutdownNoWait == TRUE

\* clone_db.py:158: leaving the with block is executor.shutdown(wait=True),
\* which returns once the queue is drained and every worker has finished
ShutdownReturns == queue = <<>> /\ Running = {}

\* clone_db.py:159: the tables are submitted in list order
NextTable == CHOOSE j \in tables \ submitted : \A k \in tables \ submitted : j <= k

\* clone_db.py:167: writer=writer, the one object that line 130 constructed
writer_arg == bulk_writers

\* clone_db.py:160-172: executor.submit queues the call and starts a worker
\* thread while fewer than max_workers exist
Submit(j) ==
    /\ mainPc = "submit"
    /\ j \in tables \ submitted
    /\ j = NextTable
    /\ submitted' = submitted \cup {j}
    /\ queue' = Append(queue, j)
    /\ num_threads' = IF num_threads < max_workers THEN num_threads + 1 ELSE num_threads
    /\ pc' = [pc EXCEPT ![j] = "queued"]
    /\ job_writer' = [job_writer EXCEPT ![j] = writer_arg]
    /\ UNCHANGED <<mainPc, exit_code>>
    /\ UNCHANGED <<pos, chunk_data, total_rows, chunk_count, queries, writes, raised, thrown>>
    /\ UNCHANGED <<inputVars, trigVars, exportVars>>
    /\ UNCHANGED <<cmdInputs, db_created, listed, bulk_writers, analysed, analysis>>

\* a worker thread that is free takes the next work item and calls copy_table
WorkerTake(j) ==
    /\ queue # <<>>
    /\ j = Head(queue)
    /\ Cardinality(Running) < num_threads
    /\ queue' = Tail(queue)
    /\ pc' = [pc EXCEPT ![j] = "exists"]
    /\ UNCHANGED <<num_threads, mainPc, submitted, exit_code>>
    /\ UNCHANGED <<pos, chunk_data, total_rows, chunk_count, queries, writes, raised, thrown>>
    /\ UNCHANGED <<inputVars, trigVars, exportVars>>
    /\ UNCHANGED cmdVars

\* clone_db.py:172-177: the with block is left, the command returns and the
\* process exits with status 0; the futures of the jobs were never kept
Finish ==
    /\ mainPc = "submit"
    /\ submitted = tables
    /\ ShutdownReturns
    /\ mainPc' = "done"
    /\ exit_code' = 0
    /\ UNCHANGED <<queue, num_threads, submitted>>
    /\ UNCHANGED <<jobVars, inputVars, trigVars, exportVars>>
    /\ UNCHANGED cmdVars

InitClone ==
    /\ command = "clone_db"
    /\ tables \in {1..n : n \in 0..NumTables}
    /\ table_exists_action \in TableExistsAction
    /\ chunk_size = 1
    /\ table_parallelism \in 1..MaxParallelism
    /\ download_parallelism = DefaultDownloadParallelism
    /\ dest_exists \in [tables -> BOOLEAN]
    /\ nrows = [j \in tables |-> j - 1]
    /\ faults \in {{e} : e \in ErrorKinds}
    /\ JobInit("unsubmitted")
    /\ writer = "None"
    /\ opens = 0
    /\ closes = 0
    /\ table_schema = 0
    /\ queue = <<>>
    /\ num_threads = 0
    /\ mainPc = "submit"
    /\ submitted = {}
    /\ exit_code = -1
    /\ CmdInputsUnused
    /\ db_created = 1
    /\ listed = 1
    /\ bulk_writers = 1
    /\ job_writer = [j \in tables |-> 0]
    /\ analysed = [j \in tables |-> "none"]
    /\ analysis = NoAnalysis
    /\ TrigIdle

NextClone ==
    \/ \E j \in Jobs : Submit(j) \/ WorkerTake(j) \/ CopyStep(j)
    \/ Finish

SpecClone == InitClone /\ [][NextClone]_vars

----------------------------------------------------------------------------
(* clone_db_command from its first statement, clone_db.py:91-177, and       *)
(* perform_dry_run_analysis, clone_db.py:193-277                            *)

MaxCount == 2

\* clone_db.py:97-102
DetermineAction(skip, over) ==
    IF skip THEN "skip" ELSE IF over THEN "overwrite" ELSE "error"

\* ValidationExit without the check of the source database
ValidationExitNoDatabase ==
    IF skip_existing /\ overwrite THEN 1
    ELSE IF source_api_key = "missing" \/ dest_api_key = "missing" THEN 2
    ELSE IF source_api_key = dest_api_key THEN 1
    ELSE IF source_api_key = "" \/ dest_api_key = "" THEN 2
    ELSE 0

\* clone_db.py:92-128: the status of the typer.Exit the validation raises,
\* 0 when it raises none.  os.environ[...] raises KeyError for a missing key.
ValidationExit ==
    IF skip_existing /\ overwrite THEN 1
    ELSE IF source_api_key = "missing" \/ dest_api_key = "missing" THEN 2
    ELSE IF source_api_key = dest_api_key THEN 1
    ELSE IF source_api_key = "" \/ dest_api_key = "" THEN 2
    ELSE IF ~source_db_exists THEN 2
    ELSE 0

\* clone_db.py:91-130: the validation, then the one BulkImportWriter
Validate ==
    /\ mainPc = "validate"
    /\ IF ValidationExit # 0
       THEN /\ mainPc' = "exited"
            /\ exit_code' = ValidationExit
            /\ UNCHANGED bulk_writers
       ELSE /\ mainPc' = "create_db"
            /\ bulk_writers' = bulk_writers + 1
            /\ UNCHANGED exit_code
    /\ UNCHANGED <<queue, num_threads, submitted>>
    /\ UNCHANGED <<cmdInputs, db_created, listed, job_writer, analysed, analysis>>
    /\ UNCHANGED <<jobVars, inputVars, exportVars, trigVars>>

\* clone_db.py:135-136: dest_client.create_database_if_not_exists(new_db)
CreateDatabase ==
    /\ mainPc = "create_db"
    /\ db_created' = db_created + 1
    /\ mainPc' = "list"
    /\ UNCHANGED <<queue, num_threads, submitted, exit_code>>
    /\ UNCHANGED <<cmdInputs, listed, bulk_writers, job_writer, analysed, analysis>>
    /\ UNCHANGED <<jobVars, inputVars, exportVars, trigVars>>

\* clone_db.py:138-140: tables = source_client.list_tables(); if dry_run
ListTables ==
    /\ mainPc = "list"
    /\ listed' = listed + 1
    /\ mainPc' = IF dry_run THEN "dry_run" ELSE "submit"
    /\ UNCHANGED <<queue, num_threads, submitted, exit_code>>
    /\ UNCHANGED <<cmdInputs, db_created, bulk_writers, job_writer, analysed, analysis>>
    /\ UNCHANGED <<jobVars, inputVars, exportVars, trigVars>>

\* clone_db.py:230: table.count if table.count is not None else 0
RowCount(c) == IF c = <<>> THEN 0 ELSE c[1]

\* Outcome of an analysis that does not look at the policy
OutcomeWithoutPolicy(exists, action) == IF exists THEN "overwrite" ELSE "create"

\* clone_db.py:233-247: the branch taken for a table
Outcome(exists, action) ==
    IF exists
    THEN IF action = "skip" THEN "skip"
         ELSE IF action = "overwrite" THEN "overwrite"
         ELSE "error"
    ELSE "create"

\* AddsRows of an analysis that adds the rows of every table
AddsRowsAlways(outcome) == TRUE

\* clone_db.py:240, 247: the branches with total_rows += row_count
AddsRows(outcome) == outcome \in {"overwrite", "create"}

\* clone_db.py:234-247: the counters after a table with this outcome
Count(a, outcome, row_count) ==
    [create_count    |-> a.create_count + (IF outcome = "create" THEN 1 ELSE 0),
     skip_count      |-> a.skip_count + (IF outcome = "skip" THEN 1 ELSE 0),
     overwrite_count |-> a.overwrite_count + (IF outcome = "overwrite" THEN 1 ELSE 0),
     error_count     |-> a.error_count + (IF outcome = "error" THEN 1 ELSE 0),
     total_rows      |-> a.total_rows + (IF AddsRows(outcome) THEN row_count ELSE 0)]

\* clone_db.py:226: for table in tables
NextAnalysed(j) ==
    /\ analysed[j] = "none"
    /\ \A k \in tables : k < j => analysed[k] # "none"

\* clone_db.py:226-247: one turn of the loop, dest_client.exists answering
DryRunTable(j) ==
    /\ mainPc = "dry_run"
    /\ j \in tables
    /\ NextAnalysed(j)
    /\ LET outcome == Outcome(dest_exists[j], table_exists_action)
       IN  /\ analysed' = [analysed EXCEPT ![j] = outcome]
           /\ analysis' = Count(analysis, outcome, RowCount(tcount[j]))
    /\ UNCHANGED <<queue, num_threads, mainPc, submitted, exit_code>>
    /\ UNCHANGED <<cmdInputs, db_created, listed, bulk_writers, job_writer>>
    /\ UNCHANGED <<jobVars, inputVars, exportVars, trigVars>>

\* clone_db.py:227: dest_client.exists raises; neither the analysis nor the
\* command has a handler, so the exception ends the process with status 1
DryRunExistsFails(j) ==
    /\ mainPc = "dry_run"
    /\ j \in tables
    /\ NextAnalysed(j)
    /\ faults # {}
    /\ mainPc' = "crashed"
    /\ exit_code' = 1
    /\ UNCHANGED <<queue, num_threads, submitted>>
    /\ UNCHANGED cmdVars
    /\ UNCHANGED <<jobVars, inputVars, exportVars, trigVars>>

\* clone_db.py:249-277, 150: the summary is printed, the command returns
DryRunReturn ==
    /\ mainPc = "dry_run"
    /\ \A j \in tables : analysed[j] # "none"
    /\ mainPc' = "done"
    /\ exit_code' = 0
    /\ UNCHANGED <<queue, num_threads, submitted>>
    /\ UNCHANGED cmdVars
    /\ UNCHANGED <<jobVars, inputVars, exportVars, trigVars>>

InitCommand ==
    /\ command = "clone_db"
    /\ skip_existing \in BOOLEAN
    /\ overwrite \in BOOLEAN
    /\ dry_run \in BOOLEAN
    /\ source_api_key \in {"missing", "", "k1"}
    /\ dest_api_key \in {"missing", "", "k1", "k2"}
    /\ source_db_exists \in BOOLEAN
    /\ tables \in {1..n : n \in 0..NumTables}
    /\ table_exists_action = DetermineAction(skip_existing, overwrite)
    /\ chunk_size = 1
    /\ table_parallelism = DefaultTableParallelism
    /\ download_parallelism = DefaultDownloadParallelism
    /\ dest_exists \in [tables -> BOOLEAN]
    /\ nrows = [j \in tables |-> j - 1]
    /\ faults = {"Exception"}
    /\ tcount \in [tables -> IF dry_run THEN {<<>>} \cup {<<n>> : n \in 0..MaxCount}
                                         ELSE {<<>>}]
    /\ JobInit("unsubmitted")
    /\ writer = "None"
    /\ opens = 0
    /\ closes = 0
    /\ table_schema = 0
    /\ queue = <<>>
    /\ num_threads = 0
    /\ mainPc = "validate"
    /\ submitted = {}
    /\ exit_code = -1
    /\ db_created = 0
    /\ listed = 0
    /\ bulk_writers = 0
    /\ job_writer = [j \in tables |-> 0]
    /\ analysed = [j \in tables |-> "none"]
    /\ analysis = NoAnalysis
    /\ TrigIdle

NextCommand ==
    \/ Validate
    \/ CreateDatabase
    \/ ListTables
    \/ \E j \in Jobs : DryRunTable(j) \/ DryRunExistsFails(j)
    \/ DryRunReturn
    \/ \E j \in Jobs : Submit(j) \/ WorkerTake(j) \/ CopyStep(j)
    \/ Finish

SpecCommand == InitCommand /\ [][NextCommand]_vars

----------------------------------------------------------------------------
(* trigger_workflow_command, commands/trigger_workflow.py:190-315, with     *)
(* check_attempt_status and wait_for_attempt.  Time is counted in ticks.    *)

TicksPerSecond == 2
MaxCallTicks == 2

\* trigger_workflow.py:241-243, in seconds
max_retry_duration == 60
initial_delay == 1
max_delay == 16

Seconds(n) == n * TicksPerSecond

Min(a, b) == IF a <= b THEN a ELSE b

\* the phrases is_queue_full_error looks for; the message of an exception is
\* written as the set of those it contains
Phrases == {"Too many attempts running", "400 Client Error"}
Messages == SUBSET Phrases

\* an attempt object: its done and success attributes
AttemptStates == [done : BOOLEAN, success : BOOLEAN]

\* is_queue_full_error taking every error for a full queue
is_queue_full_always(msg) == TRUE

\* trigger_workflow.py:126-136
is_queue_full_error(msg) ==
    "Too many attempts running" \in msg \/ "400 Client Error" \in msg

\* trigger_workflow.py:253: time.time() - retry_start_time
elapsed_time == now - retry_start_time

\* trigger_workflow.py:259: int((time.time() - retry_start_time) / initial_delay)
retry_count(elapsed) == elapsed \div Seconds(initial_delay)

\* d doubled n times; the doubling stops once max_delay is reached, where
\* min(..., max_delay) no longer depends on it
RECURSIVE Doubled(_, _)
Doubled(d, n) ==
    IF n = 0 \/ d >= Seconds(max_delay) THEN d ELSE Doubled(2 * d, n - 1)

\* trigger_workflow.py:260: min(initial_delay * (2**retry_count), max_delay)
Backoff(n) == Min(Doubled(Seconds(initial_delay), n), Seconds(max_delay))

\* remaining_time of a loop that forgets when it started
remaining_since_epoch(elapsed) == Seconds(max_retry_duration) - now

\* trigger_workflow.py:263: max_retry_duration - elapsed_time
remaining_time(elapsed) == Seconds(max_retry_duration) - elapsed

\* clamped of a loop that sleeps the whole backoff delay
unclamped(d, remaining) == d

\* trigger_workflow.py:264: delay = min(delay, remaining_time)
clamped(d, remaining) == Min(d, remaining)

\* trigger_workflow.py:259-264
delay(elapsed) == clamped(Backoff(retry_count(elapsed)), remaining_time(elapsed))

\* Retryable of a loop with no retry budget
RetryableWhileFull ==
    /\ error # <<>>
    /\ is_queue_full_error(error[1])

\* trigger_workflow.py:256, 266: the error is retried
Retryable ==
    /\ error # <<>>
    /\ is_queue_full_error(error[1])
    /\ elapsed_time < Seconds(max_retry_duration)
    /\ delay(elapsed_time) > 0

\* the command ends at the statement at with this status
TrigExit(at, status) ==
    /\ tpc' = at
    /\ exit_code' = status

\* trigger_workflow.py:216-245 and 152-159: the branch on --check-attempt, the
\* workflow_id and TD_API_KEY checks, the client, retry_start_time
Dispatch ==
    /\ tpc = "start"
    /\ IF check_attempt
       THEN IF has_key THEN tpc' = "check" /\ UNCHANGED exit_code
            ELSE TrigExit("x_key", 2)
       ELSE IF ~has_workflow_id THEN TrigExit("x_id", 1)
       ELSE IF ~has_key THEN TrigExit("x_key", 2)
       ELSE tpc' = "call" /\ UNCHANGED exit_code
    /\ retry_start_time' = now
    /\ UNCHANGED <<now, calls, sleeps, error, attempt, interrupted>>
    /\ UNCHANGED <<queue, num_threads, mainPc, submitted>>
    /\ UNCHANGED <<jobVars, inputVars, exportVars, cmdVars, trigInputs>>

\* trigger_workflow.py:248-252: client.start_attempt returns a new attempt
\* (or nothing) or raises, after some time
StartAttempt ==
    /\ tpc = "call"
    /\ calls' = calls + 1
    /\ \E d \in 0..MaxCallTicks : now' = now + d
    /\ \/ /\ attempt' \in {<<>>, <<[done |-> FALSE, success |-> FALSE]>>}
          /\ tpc' = "started"
          /\ UNCHANGED error
       \/ /\ \E msg \in Messages : error' = <<msg>>
          /\ tpc' = "handle"
          /\ UNCHANGED attempt
    /\ UNCHANGED <<retry_start_time, sleeps, interrupted, exit_code>>
    /\ UNCHANGED <<queue, num_threads, mainPc, submitted>>
    /\ UNCHANGED <<jobVars, inputVars, exportVars, cmdVars, trigInputs>>

\* trigger_workflow.py:253-270: the except clause sleeps and continues;
\* leaving the clause unbinds e
Retry ==
    /\ tpc = "handle"
    /\ Retryable
    /\ sleeps' = Append(sleeps, [delay |-> delay(elapsed_time), elapsed |-> elapsed_time])
    /\ now' = now + delay(elapsed_time)
    /\ error' = <<>>
    /\ tpc' = "call"
    /\ UNCHANGED <<retry_start_time, calls, attempt, interrupted, exit_code>>
    /\ UNCHANGED <<queue, num_threads, mainPc, submitted>>
    /\ UNCHANGED <<jobVars, inputVars, exportVars, cmdVars, trigInputs>>

\* trigger_workflow.py:272-273, 312-315: the except clause re-raises, the
\* outer handler prints the error and raises typer.Exit(1)
GiveUp ==
    /\ tpc = "handle"
    /\ ~Retryable
    /\ TrigExit("x_error", 1)
    /\ UNCHANGED <<now, retry_start_time, calls, sleeps, error, attempt, interrupted>>
    /\ UNCHANGED <<queue, num_threads, mainPc, submitted>>
    /\ UNCHANGED <<jobVars, inputVars, exportVars, cmdVars, trigInputs>>

\* trigger_workflow.py:276-289, 304-307: the result is displayed
Started ==
    /\ tpc = "started"
    /\ IF attempt = <<>> THEN TrigExit("x_no_attempt", 1)
       ELSE IF wait THEN tpc' = "wait" /\ UNCHANGED exit_code
       ELSE TrigExit("x_triggered", 0)
    /\ UNCHANGED <<now, retry_start_time, calls, sleeps, error, attempt, interrupted>>
    /\ UNCHANGED <<queue, num_threads, mainPc, submitted>>
    /\ UNCHANGED <<jobVars, inputVars, exportVars, cmdVars, trigInputs>>

\* trigger_workflow.py:98-107: wait_attempt returns the attempt, or the user
\* interrupts and attempt.update() refreshes it; either call may raise, which
\* the handler of lines 312-315 turns into typer.Exit(1)
WaitForAttempt ==
    /\ tpc = "wait"
    /\ \E how \in {"completed", "interrupted", "raised"} :
          IF how = "raised"
          THEN /\ TrigExit("x_error", 1)
               /\ \E i \in BOOLEAN : interrupted' = i
               /\ UNCHANGED attempt
          ELSE /\ \E a \in AttemptStates : attempt' = <<a>>
               /\ interrupted' = (how = "interrupted")
               /\ tpc' = "waited"
               /\ UNCHANGED exit_code
    /\ UNCHANGED <<now, retry_start_time, calls, sleeps, error>>
    /\ UNCHANGED <<queue, num_threads, mainPc, submitted>>
    /\ UNCHANGED <<jobVars, inputVars, exportVars, cmdVars, trigInputs>>

\* StatusExit that answers 0 whatever the attempt
StatusExitZero(a) == 0

\* trigger_workflow.py:292-303 and 168-178: 1 for an attempt that is done
\* and not successful, 0 otherwise
StatusExit(a) == IF a.done /\ ~a.success THEN 1 ELSE 0

\* trigger_workflow.py:292-303: the status of the attempt after the wait
Waited ==
    /\ tpc = "waited"
    /\ TrigExit("x_waited", StatusExit(attempt[1]))
    /\ UNCHANGED <<now, retry_start_time, calls, sleeps, error, attempt, interrupted>>
    /\ UNCHANGED <<queue, num_threads, mainPc, submitted>>
    /\ UNCHANGED <<jobVars, inputVars, exportVars, cmdVars, trigInputs>>

\* trigger_workflow.py:161-187: check_attempt_status: client.attempt returns
\* the attempt or nothing, or raises
CheckAttempt ==
    /\ tpc = "check"
    /\ \E how \in {"found", "missing", "raised"} :
          IF how = "raised"
          THEN TrigExit("x_error", 1) /\ UNCHANGED attempt
          ELSE IF how = "missing"
          THEN attempt' = <<>> /\ TrigExit("x_checked", 1)
          ELSE \E a \in AttemptStates :
                  attempt' = <<a>> /\ TrigExit("x_checked", StatusExit(a))
    /\ UNCHANGED <<now, retry_start_time, calls, sleeps, error, interrupted>>
    /\ UNCHANGED <<queue, num_threads, mainPc, submitted>>
    /\ UNCHANGED <<jobVars, inputVars, exportVars, cmdVars, trigInputs>>

InitTrigger ==
    /\ command = "trigger_workflow"
    /\ tables = {}
    /\ table_exists_action = "error"
    /\ chunk_size = 1
    /\ table_parallelism = DefaultTableParallelism
    /\ download_parallelism = DefaultDownloadParallelism
    /\ dest_exists = [j \in tables |-> FALSE]
    /\ nrows = [j \in tables |-> 0]
    /\ faults = {}
    /\ JobInit("unsubmitted")
    /\ writer = "None"
    /\ opens = 0
    /\ closes = 0
    /\ table_schema = 0
    /\ queue = <<>>
    /\ num_threads = 0
    /\ mainPc = "none"
    /\ submitted = {}
    /\ exit_code = -1
    /\ CmdInputsUnused
    /\ db_created = 0
    /\ listed = 0
    /\ bulk_writers = 0
    /\ job_writer = [j \in tables |-> 0]
    /\ analysed = [j \in tables |-> "none"]
    /\ analysis = NoAnalysis
    /\ has_key \in BOOLEAN
    /\ check_attempt \in BOOLEAN
    /\ has_workflow_id \in BOOLEAN
    /\ wait \in BOOLEAN
    /\ tpc = "start"
    /\ now \in 0..MaxCallTicks
    /\ retry_start_time = 0
    /\ calls = 0
    /\ sleeps = <<>>
    /\ error = <<>>
    /\ attempt = <<>>
    /\ interrupted = FALSE

NextTrigger ==
    \/ Dispatch
    \/ StartAttempt
    \/ Retry
    \/ GiveUp
    \/ Started
    \/ WaitForAttempt
    \/ Waited
    \/ CheckAttempt

SpecTrigger == InitTrigger /\ [][NextTrigger]_vars

----------------------------------------------------------------------------
(* Properties *)

CeilDiv(n, c) == (n + c - 1) \div c

IsPrefix(s, t) ==
    /\ Len(s) <= Len(t)
    /\ \A i \in 1..Len(s) : s[i] = t[i]

\* the rows of all write calls issued, in order
RECURSIVE Issued(_)
Issued(ws) == IF ws = <<>> THEN <<>> ELSE Head(ws).rows \o Issued(Tail(ws))

IsExport == command \in {"save_incremental_parquet", "td2parquet"}

\* job j read its whole result and ended normally
Transferred(j) == pc[j] = "returned" /\ (IsExport \/ queries[j] > 0)

\* the policy leaves the existing table of job j alone
LeftAlone(j) == dest_exists[j] /\ table_exists_action \in {"skip", "error"}

\* C1: a transfer of N rows that ends normally has issued ceil(N/chunk_size)
\* writes, each of chunk_size rows except the last, which holds the
\* remainder (chunk_size rows when N is a multiple), N rows in all; in
\* _process_table_chunks and in save_incremental_parquet alike.
C1_ChunkCounts ==
    \A j \in tables : Transferred(j) =>
        LET n == nrows[j]
            w == writes[j]
            last == IF n % chunk_size = 0 THEN chunk_size ELSE n % chunk_size
        IN  /\ Len(w) = CeilDiv(n, chunk_size)
            /\ \A i \in 1..Len(w) :
                  Len(w[i].rows) = IF i < Len(w) THEN chunk_size ELSE last
            /\ Len(Issued(w)) = n

\* an export with full chunks and a shorter last chunk has ended
C1_Witness ==
    /\ IsExport
    /\ pc[1] = "returned"
    /\ nrows[1] > chunk_size
    /\ nrows[1] % chunk_size # 0
    /\ Len(writes[1]) = CeilDiv(nrows[1], chunk_size)
    /\ Len(writes[1][Len(writes[1])].rows) < chunk_size

\* C2: in a copy job the first write carries the mode of the policy
\* ("overwrite" under OVERWRITE, else the create-only mode "error") and every
\* later write carries "append".
C2_FirstWriteMode ==
    \A j \in tables : ~IsExport =>
        \A i \in 1..Len(writes[j]) :
            writes[j][i].mode =
                IF i > 1 THEN "append"
                ELSE IF table_exists_action = "overwrite" THEN "overwrite"
                ELSE "error"

\* a job under OVERWRITE wrote a full chunk and then the remainder
C2_Witness ==
    /\ command = "copy_table"
    /\ table_exists_action = "overwrite"
    /\ pc[1] = "returned"
    /\ Len(writes[1]) = 2
    /\ Len(writes[1][2].rows) < chunk_size
    /\ writes[1][2].mode = "append"

\* C3: the chunks written so far, concatenated in the order of the writes,
\* are a prefix of the source rows (so are the chunks handed to the sink,
\* the failed one included), and after a normal end they are all the rows.
C3_InOrder ==
    \A j \in tables :
        /\ IsPrefix(Written(j), RowsOf(nrows[j]))
        /\ IsPrefix(Issued(writes[j]), RowsOf(nrows[j]))
        /\ Transferred(j) => Written(j) = RowsOf(nrows[j])

\* a copy of at least three rows in at least two chunks has ended
C3_Witness ==
    /\ command = "copy_table"
    /\ pc[1] = "returned"
    /\ nrows[1] >= 3
    /\ Len(writes[1]) >= 2
    /\ Written(1) = RowsOf(nrows[1])

\* C4: in an export, close() is never called twice; when the function has
\* ended, it was called once if the writer was opened and not at all if it
\* was not; and an error raised on the way leaves the function.
C4_CloseOnce ==
    IsExport =>
        /\ closes <= 1
        /\ \A j \in tables : pc[j] \in Terminal =>
              /\ closes = (IF opens > 0 THEN 1 ELSE 0)
              /\ thrown[j] # "none" => pc[j] = "raised" /\ raised[j] = thrown[j]

\* an export ended with the error of a failed write_table, its writer closed
C4_Witness ==
    /\ IsExport
    /\ pc[1] = "raised"
    /\ opens = 1
    /\ closes = 1
    /\ writes[1] # <<>>
    /\ ~writes[1][Len(writes[1])].ok

\* C5: when the table exists and the policy is SKIP or ERROR, copy_table
\* never gets to the query, reads no row and writes nothing, and unless the
\* existence check itself raised it returns without an exception.
C5_SkipOrError ==
    \A j \in tables : (~IsExport /\ LeftAlone(j)) =>
        /\ pc[j] \in {"unsubmitted", "queued", "exists", "returned", "raised"}
        /\ queries[j] = 0
        /\ pos[j] = 0
        /\ writes[j] = <<>>
        /\ (pc[j] \in Terminal /\ thrown[j] = "none") =>
              pc[j] = "returned" /\ raised[j] = "none"

\* copy_table returned for an existing table under ERROR
C5_Witness ==
    /\ command = "copy_table"
    /\ dest_exists[1]
    /\ table_exists_action = "error"
    /\ pc[1] = "returned"
    /\ queries[1] = 0

\* C6: when the table is absent, or the policy is OVERWRITE, copy_table
\* submits one query (and no second one), and a job that read its whole
\* result of at least one row has issued a write.
C6_EntersTransfer ==
    \A j \in tables : (~IsExport /\ ~LeftAlone(j)) =>
        /\ queries[j] <= 1
        /\ pc[j] \in {"wait", "open", "loop", "write", "rest", "returned"} => queries[j] = 1
        /\ (pc[j] \in Terminal /\ queries[j] = 0) => thrown[j] # "none"
        /\ (pc[j] = "returned" /\ nrows[j] >= 1) => Len(writes[j]) >= 1

\* an existing table was copied under OVERWRITE
C6_Witness ==
    /\ command = "copy_table"
    /\ dest_exists[1]
    /\ table_exists_action = "overwrite"
    /\ pc[1] = "returned"
    /\ queries[1] = 1
    /\ Len(writes[1]) >= 1

\* C7: an exception raised in copy_table (by the query, the row source or a
\* write) leaves copy_table as the exception it is; copy_table never returns
\* after one.
C7_ErrorsPropagate ==
    \A j \in tables : ~IsExport =>
        /\ thrown[j] # "none" => pc[j] = "raised" /\ raised[j] = thrown[j]
        /\ pc[j] = "returned" => thrown[j] = "none"

\* the second write of a job raised ForbiddenError
C7_Witness ==
    /\ command = "copy_table"
    /\ pc[1] = "raised"
    /\ raised[1] = "ForbiddenError"
    /\ Len(writes[1]) = 2
    /\ ~writes[1][2].ok

\* C8: clone_db_command leaves the pool only when every job has ended, by
\* returning or by raising, and until then the run is never stuck: whatever
\* jobs have raised, a job that was submitted can still be taken and run on.
C8_AllJobsEnd ==
    /\ mainPc = "done" => \A j \in tables : pc[j] \in Terminal
    /\ mainPc # "done" => ENABLED NextClone

\* the first job raised, the second copied its table, and the command ended
C8_Witness ==
    /\ mainPc = "done"
    /\ tables = {1, 2}
    /\ table_parallelism = 1
    /\ pc[1] = "raised"
    /\ pc[2] = "returned"
    /\ Len(writes[2]) >= 1

\* C9: when the command has ended, its exit status is non-zero exactly when
\* a job raised.
C9_ExitStatusReflectsFailure ==
    mainPc = "done" => ((exit_code # 0) <=> (\E j \in tables : pc[j] = "raised"))

\* C10: at most table_parallelism jobs execute copy_table at a time.
C10_BoundedParallelism ==
    Cardinality(Running) <= table_parallelism

\* one job runs on the only worker while another waits in the queue
C10_Witness ==
    /\ table_parallelism = 1
    /\ Cardinality(Running) = 1
    /\ queue # <<>>

\* C11: each copy job owns its own sink handle: no two jobs that run at the
\* same time write through the same writer object.
C11_OwnSinkHandle ==
    \A j, k \in Running : j # k => job_writer[j] # job_writer[k]

\* the tables the dry-run analysis has handled, and those with one outcome
Analysed == {j \in tables : analysed[j] # "none"}
AnalysedAs(o) == {j \in tables : analysed[j] = o}

\* the sum of the row counts of a set of tables, a missing count taken as 0
RECURSIVE SumCounts(_)
SumCounts(S) ==
    IF S = {} THEN 0
    ELSE LET j == CHOOSE x \in S : TRUE
         IN  (IF tcount[j] = <<>> THEN 0 ELSE tcount[j][1]) + SumCounts(S \ {j})

\* C12: the dry-run analysis gives each table exactly one of create (absent),
\* skip, overwrite, error (present, by policy); the four counters count the
\* tables of each outcome and sum to the number of tables; the row estimate is
\* the sum of the row counts of the create and overwrite tables only.
C12_DryRunCounts ==
    dry_run =>
        /\ \A j \in Analysed :
              /\ analysed[j] = "create" <=> ~dest_exists[j]
              /\ analysed[j] = "skip" <=> dest_exists[j] /\ table_exists_action = "skip"
              /\ analysed[j] = "overwrite" <=>
                     dest_exists[j] /\ table_exists_action = "overwrite"
              /\ analysed[j] = "error" <=> dest_exists[j] /\ table_exists_action = "error"
        /\ analysis.create_count = Cardinality(AnalysedAs("create"))
        /\ analysis.skip_count = Cardinality(AnalysedAs("skip"))
        /\ analysis.overwrite_count = Cardinality(AnalysedAs("overwrite"))
        /\ analysis.error_count = Cardinality(AnalysedAs("error"))
        /\ analysis.create_count + analysis.skip_count + analysis.overwrite_count
               + analysis.error_count = Cardinality(Analysed)
        /\ analysis.total_rows = SumCounts(AnalysedAs("create") \cup AnalysedAs("overwrite"))
        /\ mainPc = "done" => Analysed = tables

\* a finished analysis of two tables, one created and one skipped, both with
\* rows, so that the estimate leaves the rows of the skipped one out
C12_Witness ==
    /\ dry_run
    /\ mainPc = "done"
    /\ analysis.create_count = 1
    /\ analysis.skip_count = 1
    /\ \A j \in tables : tcount[j] # <<>> /\ tcount[j][1] > 0
    /\ analysis.total_rows > 0

\* C13: a dry run changes nothing on either side: no destination database is
\* created, no query is started, no write is issued, no job is submitted.
C13_DryRunChangesNothing ==
    dry_run =>
        /\ db_created = 0
        /\ submitted = {}
        /\ \A j \in tables : queries[j] = 0 /\ writes[j] = <<>>

\* C14: the dry-run analysis never ends with an error: once it has started,
\* the command either still runs or has exited with status 0.
C14_DryRunNeverFails ==
    (dry_run /\ listed > 0) => exit_code \in {-1, 0}

\* the invocations C15 is about
BadInvocation ==
    \/ skip_existing /\ overwrite
    \/ source_api_key = "missing" \/ dest_api_key = "missing"
    \/ source_api_key = "" \/ dest_api_key = ""
    \/ source_api_key = dest_api_key
    \/ ~source_db_exists

\* C15: with both policy flags, a missing, empty or repeated API key, or an
\* absent source database, clone-db exits non-zero, and it never creates the
\* destination database, lists tables, analyses a table or submits a job.
C15_ValidationExitsFirst ==
    BadInvocation =>
        /\ db_created = 0
        /\ listed = 0
        /\ Analysed = {}
        /\ analysis = NoAnalysis
        /\ submitted = {}
        /\ mainPc \in {"validate", "exited"}
        /\ mainPc = "validate" => ENABLED Validate
        /\ mainPc = "exited" => exit_code \in {1, 2}

\* the source database is absent, everything else is in order
C15_Witness ==
    /\ mainPc = "exited"
    /\ exit_code = 2
    /\ ~(skip_existing /\ overwrite)
    /\ source_api_key = "k1"
    /\ dest_api_key = "k2"
    /\ ~source_db_exists

\* C16: a query job that finishes unsuccessfully makes the job fail with no
\* result row read, no write issued and no sink writer opened: copy_table
\* raises to its caller, and fetch_table_incremental reports failure so that
\* td2parquet exits with status 1.
C16_FailedQueryJob ==
    \A j \in tables :
        /\ thrown[j] = "QueryFailed" =>
              /\ pc[j] = "raised"
              /\ raised[j] = "QueryFailed"
              /\ pos[j] = 0
              /\ writes[j] = <<>>
        /\ pc[j] = "f_job_failed" =>
              /\ pos[j] = 0
              /\ writes[j] = <<>>
              /\ opens = 0
              /\ writer = "None"
              /\ exit_code \in {-1, 1}
              /\ exit_code = -1 => ENABLED Td2ParquetExit(j)

\* td2parquet has exited after an unsuccessful job whose result had rows
C16_Witness ==
    /\ command = "td2parquet"
    /\ pc[1] = "f_job_failed"
    /\ nrows[1] > 0
    /\ exit_code = 1

\* start_attempt has raised an error whose message holds neither phrase
NonQueueFailure ==
    /\ error # <<>>
    /\ "Too many attempts running" \notin error[1]
    /\ "400 Client Error" \notin error[1]

\* C17: after start_attempt raises an error that is not a queue-full error,
\* trigger-workflow calls start_attempt no more and does not sleep for it,
\* and exits with status 1; when the first call raises it, that call is the
\* only one and there is no sleep at all.
C17_NoRetryOnOtherError ==
    NonQueueFailure =>
        /\ tpc \in {"handle", "x_error"}
        /\ tpc = "handle" => ENABLED GiveUp /\ ~ENABLED Retry
        /\ tpc = "x_error" => exit_code = 1
        /\ Len(sleeps) = calls - 1

\* the first call raised an error that is not a queue-full error
C17_Witness ==
    /\ NonQueueFailure
    /\ tpc = "x_error"
    /\ exit_code = 1
    /\ calls = 1
    /\ sleeps = <<>>

\* a start_attempt failure is being handled, or has ended the command, with
\* the retry budget used up
TimedOut ==
    /\ error # <<>>
    /\ tpc \in {"handle", "x_error"}
    /\ elapsed_time >= Seconds(max_retry_duration)

\* C18: once a start_attempt failure is observed with 60 seconds or more
\* elapsed since the retry loop started, there is no further call or sleep:
\* the error is reported and the command exits with status 1; every sleep
\* was decided with less than 60 seconds elapsed, at a later time than the
\* one before.
C18_GivesUpAfterBudget ==
    /\ TimedOut =>
          /\ tpc = "handle" => ENABLED GiveUp /\ ~ENABLED Retry
          /\ tpc = "x_error" => exit_code = 1
    /\ \A i \in 1..Len(sleeps) :
          /\ sleeps[i].elapsed < Seconds(max_retry_duration)
          /\ i > 1 => sleeps[i - 1].elapsed < sleeps[i].elapsed

\* every call failed with a queue-full error until the budget was used up
C18_Witness ==
    /\ TimedOut
    /\ tpc = "x_error"
    /\ exit_code = 1
    /\ "Too many attempts running" \in error[1]
    /\ Len(sleeps) = calls - 1
    /\ calls > 1

C20_ExitByAttemptStatus ==
    /\ tpc = "waited" => attempt # <<>> /\ ENABLED Waited
    /\ tpc = "x_waited" =>
          /\ attempt # <<>>
          /\ exit_code = 1 <=> attempt[1].done /\ ~attempt[1].success
          /\ exit_code = 0 <=> ~attempt[1].done \/ attempt[1].success
    /\ tpc = "x_checked" =>
          /\ exit_code = 1 <=>
                 attempt = <<>> \/ (attempt[1].done /\ ~attempt[1].success)
          /\ exit_code = 0 <=>
                 attempt # <<>> /\ (~attempt[1].done \/ attempt[1].success)

\* the user interrupted the wait and the refreshed attempt is still running
C20_Witness ==
    /\ tpc = "x_waited"
    /\ interrupted
    /\ ~attempt[1].done
    /\ exit_code = 0

\* C21: in an export job the schema is fixed by the first written chunk: the
\* file writer is opened at most once, the stored schema is that of the first
\* chunk (the one that starts with row 1) from the moment it is set, and no
\* write goes to the file without that one writer.
C21_SchemaFixedByFirstChunk ==
    IsExport =>
        /\ opens <= 1
        /\ table_schema \in {0, 1}
        /\ opens = 1 => table_schema = 1
        /\ writer = "None" <=> opens = 0
        /\ \A j \in tables : writes[j] # <<>> =>
              /\ opens = 1
              /\ writes[j][1].rows[1] = table_schema

\* an export that wrote a second chunk through the writer of the first
C21_Witness ==
    /\ IsExport
    /\ opens = 1
    /\ table_schema = 1
    /\ Len(writes[1]) >= 2
    /\ writes[1][2].ok

\* job j has failed, or is on its way out with an exception pending
Failing(j) == pc[j] = "raised" \/ (pc[j] = "e_finally" /\ thrown[j] # "none")

\* C22: when a job fails while rows wait in the buffer and no write call was
\* issued for them (the iterator raised while the chunk was accumulated),
\* those rows are never written: the sink has received exactly the complete
\* chunks written before, chunk_size rows each, and nothing of the buffer.
C22_PartialChunkDiscarded ==
    \A j \in tables :
        (/\ Failing(j)
         /\ chunk_data[j] # <<>>
         /\ Len(chunk_data[j]) < chunk_size
         /\ writes[j] # <<>> => writes[j][Len(writes[j])].rows # chunk_data[j]) =>
            /\ \A i \in 1..Len(writes[j]) :
                  writes[j][i].ok /\ Len(writes[j][i].rows) = chunk_size
            /\ Written(j) = RowsOf(pos[j] - Len(chunk_data[j]))
            /\ \A r \in 1..Len(chunk_data[j]) :
                  \A w \in 1..Len(Written(j)) : Written(j)[w] # chunk_data[j][r]
            /\ pc[j] = "e_finally" => ENABLED ExportFinally(j)

\* the iterator raised with one complete chunk written and one row buffered
C22_Witness ==
    /\ pc[1] = "raised"
    /\ raised[1] # "none"
    /\ Len(writes[1]) = 1
    /\ writes[1][1].ok
    /\ Len(chunk_data[1]) = 1
    /\ chunk_size > 1
    /\ pos[1] < nrows[1]

\* C23: the buffer never holds more than chunk_size rows, whatever the number
\* of source rows; when the next row is about to be buffered it holds fewer
\* than chunk_size rows and none that a write has consumed.
C23_BufferBounded ==
    \A j \in tables :
        /\ Len(chunk_data[j]) <= chunk_size
        /\ pc[j] \in {"loop", "e_loop"} =>
              /\ Len(chunk_data[j]) < chunk_size
              /\ Written(j) \o chunk_data[j] = RowsOf(pos[j])

\* more source rows than a chunk holds: a row is buffered after a write
C23_Witness ==
    /\ pc[1] \in {"loop", "e_loop"}
    /\ nrows[1] > chunk_size
    /\ Len(writes[1]) >= 1
    /\ Len(chunk_data[1]) = 1

\* the write calls of job j that returned, and those of them that wrote a
\* full chunk
OkWrites(j) == {i \in 1..Len(writes[j]) : writes[j][i].ok}
FullChunkWrites(j) == {i \in OkWrites(j) : Len(writes[j][i].rows) = chunk_size}

\* C24, as stated: after every successful write the row counter is the number
\* of rows in all chunks written so far and the chunk counter is the number
\* of chunks written so far; on normal completion the row counter is the
\* number of rows the source yielded.
C24_CountersTrackWrites ==
    \A j \in tables :
        /\ total_rows[j] = Len(Written(j))
        /\ ~IsExport => chunk_count[j] = Cardinality(OkWrites(j))
        /\ Transferred(j) => total_rows[j] = nrows[j]

\* C24, amended: the row counter is the number of rows in all chunks written
\* so far, and on normal completion the number of rows the source yielded;
\* the chunk counter of _process_table_chunks is the number of full chunks
\* written so far, the write of the final remainder leaving it as it is.
C24_CountersTrackFullChunks ==
    \A j \in tables :
        /\ total_rows[j] = Len(Written(j))
        /\ ~IsExport => chunk_count[j] = Cardinality(FullChunkWrites(j))
        /\ Transferred(j) => total_rows[j] = nrows[j] /\ pos[j] = nrows[j]

\* copy_table has returned after one full chunk and a remainder
C24_Witness ==
    /\ ~IsExport
    /\ pc[1] = "returned"
    /\ Len(writes[1]) = 2
    /\ chunk_count[1] = 1
    /\ total_rows[1] = nrows[1]
    /\ Len(writes[1][2].rows) < chunk_size

\* the delays of the first n sleeps, added up
RECURSIVE SleptBefore(_)
SleptBefore(n) == IF n = 0 THEN 0 ELSE SleptBefore(n - 1) + sleeps[n].delay

\* every start_attempt call up to the one before sleep i took no time: each
\* failure was observed when the sleeps before it had just ended
InstantCalls(i) == \A k \in 1..i : sleeps[k].elapsed = SleptBefore(k - 1)

\* the i-th delay of the sequence 1, 2, 4, 8, 16, 16, ... seconds
Doubling(i) == Seconds(Min(initial_delay * 2 ^ (i - 1), max_delay))

\* C25: on consecutive queue-full failures, with start_attempt calls that take
\* no time and sleeps that last their delay, the delays are 1, 2, 4, 8, 16,
\* 16, ... seconds.
C25_DelaysDouble ==
    \A i \in 1..Len(sleeps) : InstantCalls(i) => sleeps[i].delay = Doubling(i)

\* C26: copy_table issues a write in mode overwrite only under the policy
\* OVERWRITE; under SKIP or ERROR a table that existed at the check gets no
\* write, and one that was absent gets its first write in the mode error
\* (fail if the table exists), after whose failure nothing more is written.
C26_OverwriteOnlyByPolicy ==
    \A j \in tables : ~IsExport =>
        /\ \A i \in 1..Len(writes[j]) :
              writes[j][i].mode = "overwrite" => table_exists_action = "overwrite"
        /\ table_exists_action \in {"skip", "error"} =>
              /\ dest_exists[j] => writes[j] = <<>>
              /\ writes[j] # <<>> =>
                    /\ writes[j][1].mode = "error"
                    /\ ~writes[j][1].ok => Len(writes[j]) = 1 /\ pc[j] = "raised"

\* the table was absent at the check and the create-only first write failed
C26_Witness ==
    /\ command = "copy_table"
    /\ ~dest_exists[1]
    /\ table_exists_action = "error"
    /\ Len(writes[1]) = 1
    /\ writes[1][1].mode = "error"
    /\ ~writes[1][1].ok
    /\ pc[1] = "raised"

\* C27: after a write of a job fails no further write is issued and nothing is
\* rolled back: the job fails, the destination holds exactly the chunks
\* written before, a strict prefix of the source rows; an output file that was
\* opened is closed all the same; under OVERWRITE the first chunk written
\* has replaced the table's previous contents.
C27_NothingAfterFailedWrite ==
    \A j \in tables :
        /\ \A i \in 1..Len(writes[j]) : ~writes[j][i].ok => i = Len(writes[j])
        /\ (writes[j] # <<>> /\ ~writes[j][Len(writes[j])].ok) =>
              /\ Failing(j)
              /\ Written(j) = RowsOf(total_rows[j])
              /\ total_rows[j] < nrows[j]
              /\ total_rows[j] = pos[j] - Len(chunk_data[j])
              /\ (IsExport /\ pc[j] = "raised") => writer = "closed" /\ closes = 1
              /\ (~IsExport /\ table_exists_action = "overwrite" /\ Len(writes[j]) > 1) =>
                    writes[j][1].mode = "overwrite" /\ writes[j][1].ok

\* an export whose second write failed, its file closed
C27_Witness ==
    /\ IsExport
    /\ pc[1] = "raised"
    /\ Len(writes[1]) = 2
    /\ writes[1][1].ok
    /\ ~writes[1][2].ok
    /\ writer = "closed"

\* C28: the dry-run outcome of a table agrees with what copy_table does for
\* it: for create and overwrite copy_table starts a transfer (it never returns
\* without its query), for skip and error it makes no query, reads no row and
\* writes nothing; a table reported as error is passed over without raising.
C28_DryRunAgreesWithCopy ==
    \A j \in tables : ~IsExport =>
        LET outcome == Outcome(dest_exists[j], table_exists_action)
        IN  /\ outcome \in {"create", "overwrite"} =>
                  /\ pc[j] \in {"wait", "open", "loop", "write", "rest", "returned"} =>
                        queries[j] = 1
                  /\ (pc[j] \in Terminal /\ queries[j] = 0) => thrown[j] # "none"
            /\ outcome \in {"skip", "error"} =>
                  /\ queries[j] = 0
                  /\ pos[j] = 0
                  /\ writes[j] = <<>>
                  /\ pc[j] \in {"unsubmitted", "queued", "exists", "returned", "raised"}
                  /\ (pc[j] \in Terminal /\ thrown[j] = "none") =>
                        pc[j] = "returned" /\ raised[j] = "none"

\* a table the analysis reports as error, passed over by copy_table
C28_Witness ==
    /\ command = "copy_table"
    /\ Outcome(dest_exists[1], table_exists_action) = "error"
    /\ pc[1] = "returned"
    /\ raised[1] = "none"
    /\ writes[1] = <<>>

\* C30: a query that succeeds with zero rows ends the job normally with zero
\* writes: copy_table returns without a write in any mode, the export opens
\* no writer and calls no close, and td2parquet exits with status 0.
C30_ZeroRows ==
    \A j \in tables : nrows[j] = 0 =>
        /\ pc[j] \in {"rest", "e_rest"} => chunk_data[j] = <<>>
        /\ (pc[j] = "e_finally" /\ thrown[j] = "none") => writer = "None"
        /\ Transferred(j) =>
              /\ writes[j] = <<>>
              /\ total_rows[j] = 0
              /\ IsExport => opens = 0 /\ closes = 0 /\ writer = "None" /\ table_schema = 0
              /\ command = "td2parquet" =>
                    /\ exit_code \in {-1, 0}
                    /\ exit_code = -1 => ENABLED Td2ParquetExit(j)

\* td2parquet has exited after a query that yielded no row
C30_Witness ==
    /\ command = "td2parquet"
    /\ nrows[1] = 0
    /\ pc[1] = "returned"
    /\ queries[1] = 1
    /\ opens = 0
    /\ exit_code = 0

\* C29, as stated: the retry loop ends after a bounded number of
\* start_attempt calls; every delay is at least 1 second and no sleep ends
\* later than 60 seconds after the loop started.
C29_DelaysAtLeastOneSecond ==
    /\ Len(sleeps) <= 7
    /\ calls <= Len(sleeps) + 1
    /\ \A i \in 1..Len(sleeps) :
          /\ sleeps[i].delay >= Seconds(1)
          /\ sleeps[i].elapsed + sleeps[i].delay <= Seconds(max_retry_duration)

\* C29, amended: the retry loop ends after a bounded number of start_attempt
\* calls (at most seven sleeps and eight calls), by a success or by the error
\* re-raised; every delay is positive and at least the smaller of 1 second
\* and the time left of the 60-second budget, and no sleep is to end later
\* than 60 seconds after the loop started.
C29_RetryLoopTerminates ==
    /\ Len(sleeps) <= 7
    /\ calls <= Len(sleeps) + 1
    /\ \A i \in 1..Len(sleeps) :
          /\ sleeps[i].delay > 0
          /\ sleeps[i].delay >=
                 Min(Seconds(1), Seconds(max_retry_duration) - sleeps[i].elapsed)
          /\ sleeps[i].elapsed + sleeps[i].delay <= Seconds(max_retry_duration)
    /\ tpc = "call" => ENABLED StartAttempt
    /\ tpc = "handle" => ENABLED Retry \/ ENABLED GiveUp

\* the last sleep of a run that used up its budget lasted under a second
C29_Witness ==
    /\ tpc = "x_error"
    /\ error # <<>>
    /\ Len(sleeps) >= 1
    /\ sleeps[Len(sleeps)].delay < Seconds(1)
    /\ sleeps[Len(sleeps)].elapsed + sleeps[Len(sleeps)].delay = Seconds(max_retry_duration)

====
